---------------------------- MODULE Spec2Model ----------------------------
(***************************************************************************)
(* Task Panel (CM0NKI/obsidian-task-panel): the parsing and grouping core  *)
(* of src/src/taskParser.ts and the view that shows its result.            *)
(*                                                                         *)
(*   findParentHeading  binary search for the heading enclosing a line     *)
(*   buildGroupTasks    indentation stack -> forest, root buckets, counts  *)
(*   parseTasks         list items + headings + line texts -> groups       *)
(*   TaskPanelView      host events, debounced refresh, rendering, toggle  *)
(*                                                                         *)
(* Array indices are 0-based as in the source; a TLA+ sequence s holds     *)
(* the array element a[i] at s[i + 1].  A Task object is identified by its *)
(* position in the array that created it (flatTasks / group.tasks), so     *)
(* `children', `roots', `stack', `openTasks' and `completedTasks' are      *)
(* sequences of such positions: the references the source pushes.          *)
(***************************************************************************)
EXTENDS Integers, Sequences, FiniteSets, TLC

VARIABLES
    \* findParentHeading (taskParser.ts:30-53)
    fphLine,        \* parameter `line'
    fphHeadings,    \* parameter `headings'
    lo, hi,         \* the search window
    fphIters,       \* iterations of the while loop executed so far
    fphPc,          \* "entry" | "loop" | "done"
    fphResult,      \* the returned value
    \* buildGroupTasks (taskParser.ts:59-110)
    flatTasks,      \* parameter `flatTasks'
    bgtNext,        \* 0-based index of the next task of the for loop
    stack, roots, children,
    bgtPc,          \* "idle" | "loop" | "done"
    bgtResult,      \* the returned value
    \* parseTasks (taskParser.ts:116-180)
    cache,          \* app.metadataCache.getFileCache(file)
    content,        \* app.vault.cachedRead(file), already split on "\n"
    parsePc,        \* "idle" | "start" | "done"
    parseResult,    \* the returned ParseResult
    \* TaskPanelView (part_001) and its host
    currentFile,    \* this.currentFile: a path, or NoFile
    vault,          \* path -> lines of the file (app.vault)
    metadata,       \* path -> cache of the file (app.metadataCache)
    settings,       \* this.plugin.settings
    panel,          \* the children of this.contentEl
    refreshes,      \* the refresh() calls suspended in parseTasks
    debouncer,      \* the timer of debouncedRefresh
    toggles,        \* the toggleTask() calls, finished ones included
    edits,          \* history: the lines edited outside the panel
    writes,         \* history: how many times the vault was written
    lastEvent,      \* history: the event of the last step
    refreshStarted, \* history: the last step called refresh()
    burst,          \* history: the change notifications of the current burst
    events          \* history: how many host events were delivered

fphVars == <<fphLine, fphHeadings, lo, hi, fphIters, fphPc, fphResult>>
bgtVars == <<flatTasks, bgtNext, stack, roots, children, bgtPc, bgtResult>>
parseVars == <<cache, content, parsePc, parseResult>>
viewVars == <<currentFile, vault, metadata, settings, panel, refreshes, debouncer,
              toggles, edits, writes, lastEvent, refreshStarted, burst, events>>
vars == <<fphVars, bgtVars, parseVars, viewVars>>

(***************************************************************************)
(* Bounds of the model.                                                    *)
(***************************************************************************)
MaxHeadings == 3    \* headings handed to findParentHeading
MaxLine == 4        \* greatest line number handed to findParentHeading
MaxTasks == 5       \* tasks handed to buildGroupTasks
NumLines == 4       \* lines of the parsed document
MaxEvents == 2      \* host events delivered to the view
MaxActs == 2        \* checkbox clicks and edits made outside the panel

\* `null', as returned by findParentHeading
Null == [null |-> TRUE]

RECURSIVE SeqSum(_)
SeqSum(s) == IF s = <<>> THEN 0 ELSE Head(s) + SeqSum(Tail(s))

Range(s) == {s[i] : i \in 1..Len(s)}

(***************************************************************************)
(* findParentHeading                                                       *)
(***************************************************************************)
HeadingTexts == {"A", "(No heading)"}

\* Math.ceil((lo + hi + 1) / 2) on non-negative integers
Mid(l, h) == (l + h + 2) \div 2

\* A broken loop body: the test is strict, so a heading starting on the line
\* itself does not count.
BsStepStrict(l, h, line, headings) ==
    LET mid == Mid(l, h)
    IN  IF headings[mid + 1].line < line THEN <<mid, h>> ELSE <<l, mid - 1>>

\* One iteration of the while loop: the next <<lo, hi>>.
BsStep(l, h, line, headings) ==
    LET mid == Mid(l, h)
    IN  IF headings[mid + 1].line <= line THEN <<mid, h>> ELSE <<l, mid - 1>>

RECURSIVE BsLoop(_, _, _, _)
BsLoop(l, h, line, headings) ==
    IF l < h
    THEN LET n == BsStep(l, h, line, headings)
         IN  BsLoop(n[1], n[2], line, headings)
    ELSE l

HeadingAt(headings, i) ==
    [text |-> headings[i + 1].heading, line |-> headings[i + 1].line]

\* A broken version: the test of the first heading (line 40) is missing.
findParentHeadingNoGuard(line, headings) ==
    IF Len(headings) = 0 THEN Null
    ELSE HeadingAt(headings, BsLoop(0, Len(headings) - 1, line, headings))

\* The function as parseTasks calls it.
findParentHeading(line, headings) ==
    IF Len(headings) = 0 THEN Null
    ELSE IF headings[1].line > line THEN Null
    ELSE HeadingAt(headings, BsLoop(0, Len(headings) - 1, line, headings))

\* The earlier, linear version of the same function: the last heading of the
\* leading run of headings with line <= `line'.
RECURSIVE LinearScan(_, _, _, _)
LinearScan(line, headings, i, result) ==
    IF i >= Len(headings) THEN result
    ELSE IF headings[i + 1].line <= line
         THEN LinearScan(line, headings, i + 1, HeadingAt(headings, i))
         ELSE result

findParentHeadingLinear(line, headings) == LinearScan(line, headings, 0, Null)

IsSortedByLine(hs) == \A i \in 1..(Len(hs) - 1) : hs[i].line <= hs[i + 1].line

FphIdle ==
    /\ fphLine = 0 /\ fphHeadings = <<>> /\ lo = 0 /\ hi = 0
    /\ fphIters = 0 /\ fphPc = "idle" /\ fphResult = Null

FphInit ==
    /\ fphLine \in 0..MaxLine
    /\ \E n \in 0..MaxHeadings :
          \E hs \in [1..n -> [heading : HeadingTexts, line : 0..MaxLine]] :
              IsSortedByLine(hs) /\ fphHeadings = hs
    /\ lo = 0 /\ hi = 0 /\ fphIters = 0
    /\ fphPc = "entry"
    /\ fphResult = Null

\* line 34: no headings
FphEmpty ==
    /\ fphPc = "entry"
    /\ Len(fphHeadings) = 0
    /\ fphResult' = Null
    /\ fphPc' = "done"
    /\ UNCHANGED <<fphLine, fphHeadings, lo, hi, fphIters>>
    /\ UNCHANGED <<bgtVars, parseVars, viewVars>>

\* lines 36-40: the line precedes the first heading
FphBeforeFirst ==
    /\ fphPc = "entry"
    /\ Len(fphHeadings) > 0
    /\ fphHeadings[1].line > fphLine
    /\ lo' = 0 /\ hi' = Len(fphHeadings) - 1
    /\ fphResult' = Null
    /\ fphPc' = "done"
    /\ UNCHANGED <<fphLine, fphHeadings, fphIters>>
    /\ UNCHANGED <<bgtVars, parseVars, viewVars>>

\* lines 36-40: enter the loop
FphEnter ==
    /\ fphPc = "entry"
    /\ Len(fphHeadings) > 0
    /\ ~(fphHeadings[1].line > fphLine)
    /\ lo' = 0 /\ hi' = Len(fphHeadings) - 1
    /\ fphPc' = "loop"
    /\ UNCHANGED <<fphLine, fphHeadings, fphIters, fphResult>>
    /\ UNCHANGED <<bgtVars, parseVars, viewVars>>

\* lines 42-49: one iteration
FphIterate ==
    /\ fphPc = "loop"
    /\ lo < hi
    /\ fphIters <= MaxHeadings + 1
    /\ LET n == BsStep(lo, hi, fphLine, fphHeadings)
       IN  lo' = n[1] /\ hi' = n[2]
    /\ fphIters' = fphIters + 1
    /\ UNCHANGED <<fphLine, fphHeadings, fphPc, fphResult>>
    /\ UNCHANGED <<bgtVars, parseVars, viewVars>>

\* lines 51-52
FphReturn ==
    /\ fphPc = "loop"
    /\ ~(lo < hi)
    /\ fphResult' = HeadingAt(fphHeadings, lo)
    /\ fphPc' = "done"
    /\ UNCHANGED <<fphLine, fphHeadings, lo, hi, fphIters>>
    /\ UNCHANGED <<bgtVars, parseVars, viewVars>>

FphNext == FphEmpty \/ FphBeforeFirst \/ FphEnter \/ FphIterate \/ FphReturn


(***************************************************************************)
(* buildGroupTasks                                                         *)
(*                                                                         *)
(* A task is [text, line, completed, indent]; its `children' array is      *)
(* children[i + 1], i the task's index in flatTasks.                       *)
(***************************************************************************)
Indents == {0, 2, 4}

Top(stk) == stk[Len(stk)]
Pop(stk) == SubSeq(stk, 1, Len(stk) - 1)

\* lines 69-71: pop while the top is not shallower than the task
RECURSIVE PopWhile(_, _, _)
PopWhile(stk, flat, indent) ==
    IF Len(stk) > 0 /\ flat[Top(stk) + 1].indent >= indent
    THEN PopWhile(Pop(stk), flat, indent)
    ELSE stk

\* A broken loop body: `if' for `while', at most one task is popped.
BuildStepPopOnce(st, i, flat) ==
    LET stk == IF Len(st.stack) > 0 /\ flat[Top(st.stack) + 1].indent >= flat[i + 1].indent
               THEN Pop(st.stack)
               ELSE st.stack
    IN  IF Len(stk) > 0
        THEN [stack |-> Append(stk, i),
              roots |-> st.roots,
              children |-> [st.children EXCEPT ![Top(stk) + 1] = Append(@, i)]]
        ELSE [stack |-> Append(stk, i),
              roots |-> Append(st.roots, i),
              children |-> st.children]

\* A broken loop body: only deeper tasks are popped, so a task of the same
\* indent as the top becomes its child.
BuildStepKeepEqual(st, i, flat) ==
    LET RECURSIVE PopDeeper(_)
        PopDeeper(stk) ==
            IF Len(stk) > 0 /\ flat[Top(stk) + 1].indent > flat[i + 1].indent
            THEN PopDeeper(Pop(stk))
            ELSE stk
        stk == PopDeeper(st.stack)
    IN  IF Len(stk) > 0
        THEN [stack |-> Append(stk, i),
              roots |-> st.roots,
              children |-> [st.children EXCEPT ![Top(stk) + 1] = Append(@, i)]]
        ELSE [stack |-> Append(stk, i),
              roots |-> Append(st.roots, i),
              children |-> st.children]

\* A broken loop body: a child is put at the front of its parent's children,
\* and a root at the front of the roots.
BuildStepUnshift(st, i, flat) ==
    LET stk == PopWhile(st.stack, flat, flat[i + 1].indent)
    IN  IF Len(stk) > 0
        THEN [stack |-> Append(stk, i),
              roots |-> st.roots,
              children |-> [st.children EXCEPT ![Top(stk) + 1] = <<i>> \o @]]
        ELSE [stack |-> Append(stk, i),
              roots |-> <<i>> \o st.roots,
              children |-> st.children]

\* lines 68-79: one iteration of the for loop, for the task of index i
BuildStep(st, i, flat) ==
    LET stk == PopWhile(st.stack, flat, flat[i + 1].indent)
    IN  IF Len(stk) > 0
        THEN [stack |-> Append(stk, i),
              roots |-> st.roots,
              children |-> [st.children EXCEPT ![Top(stk) + 1] = Append(@, i)]]
        ELSE [stack |-> Append(stk, i),
              roots |-> Append(st.roots, i),
              children |-> st.children]

\* lines 65-66, and the empty `children' of every task (line 145)
BuildStart(flat) ==
    [stack |-> <<>>, roots |-> <<>>, children |-> [i \in 1..Len(flat) |-> <<>>]]

RECURSIVE BuildLoop(_, _, _)
BuildLoop(st, i, flat) ==
    IF i < Len(flat) THEN BuildLoop(BuildStep(st, i, flat), i + 1, flat) ELSE st

\* lines 87-96: the counts <<open, completed>> of a task list and all below it
RECURSIVE walk(_, _, _)
walk(tasks, flat, kids) ==
    IF tasks = <<>> THEN <<0, 0>>
    ELSE LET t == Head(tasks)
             own == IF flat[t + 1].completed THEN <<0, 1>> ELSE <<1, 0>>
             below == walk(kids[t + 1], flat, kids)
             rest == walk(Tail(tasks), flat, kids)
         IN  <<own[1] + below[1] + rest[1], own[2] + below[2] + rest[2]>>

\* A broken partition: a root goes to completedTasks as soon as it or one of
\* its children is completed.
BuildFinishByChildren(st, flat) ==
    LET Done(t) == \/ flat[t + 1].completed
                   \/ \E c \in Range(st.children[t + 1]) : flat[c + 1].completed
        counts == walk(st.roots, flat, st.children)
    IN  [openTasks |-> SelectSeq(st.roots, LAMBDA t : ~Done(t)),
         completedTasks |-> SelectSeq(st.roots, LAMBDA t : Done(t)),
         openCount |-> counts[1],
         completedCount |-> counts[2],
         children |-> st.children]

\* A broken count: only the roots are counted.
BuildFinishRootCount(st, flat) ==
    LET open == SelectSeq(st.roots, LAMBDA t : ~flat[t + 1].completed)
        completed == SelectSeq(st.roots, LAMBDA t : flat[t + 1].completed)
    IN  [openTasks |-> open,
         completedTasks |-> completed,
         openCount |-> Len(open),
         completedCount |-> Len(completed),
         children |-> st.children]

\* lines 81-109: the partition of the roots, the counts, the returned object
BuildFinish(st, flat) ==
    LET counts == walk(st.roots, flat, st.children)
    IN  [openTasks |-> SelectSeq(st.roots, LAMBDA t : ~flat[t + 1].completed),
         completedTasks |-> SelectSeq(st.roots, LAMBDA t : flat[t + 1].completed),
         openCount |-> counts[1],
         completedCount |-> counts[2],
         children |-> st.children]

\* The function as parseTasks calls it.
buildGroupTasks(flat) == BuildFinish(BuildLoop(BuildStart(flat), 0, flat), flat)

NoBuildResult ==
    [openTasks |-> <<>>, completedTasks |-> <<>>, openCount |-> 0,
     completedCount |-> 0, children |-> <<>>]

\* Line-ordered tasks: task i stands on line i.
TaskList(f) ==
    [i \in 1..Len(f) |-> [text |-> "t", line |-> i - 1,
                          completed |-> f[i].completed, indent |-> f[i].indent]]

BgtIdle ==
    /\ flatTasks = <<>> /\ bgtNext = 0 /\ stack = <<>> /\ roots = <<>>
    /\ children = <<>> /\ bgtPc = "idle" /\ bgtResult = NoBuildResult

BgtInit ==
    /\ \E n \in 0..MaxTasks :
          \E f \in [1..n -> [completed : BOOLEAN, indent : Indents]] :
              flatTasks = TaskList(f)
    /\ bgtNext = 0
    /\ stack = BuildStart(flatTasks).stack
    /\ roots = BuildStart(flatTasks).roots
    /\ children = BuildStart(flatTasks).children
    /\ bgtPc = "loop"
    /\ bgtResult = NoBuildResult

\* lines 68-79
BgtIterate ==
    /\ bgtPc = "loop"
    /\ bgtNext < Len(flatTasks)
    /\ LET st == BuildStep([stack |-> stack, roots |-> roots, children |-> children],
                           bgtNext, flatTasks)
       IN  stack' = st.stack /\ roots' = st.roots /\ children' = st.children
    /\ bgtNext' = bgtNext + 1
    /\ UNCHANGED <<flatTasks, bgtPc, bgtResult>>
    /\ UNCHANGED <<fphVars, parseVars, viewVars>>

\* lines 81-109
BgtFinish ==
    /\ bgtPc = "loop"
    /\ bgtNext = Len(flatTasks)
    /\ bgtResult' = BuildFinish([stack |-> stack, roots |-> roots, children |-> children],
                                flatTasks)
    /\ bgtPc' = "done"
    /\ UNCHANGED <<flatTasks, bgtNext, stack, roots, children>>
    /\ UNCHANGED <<fphVars, parseVars, viewVars>>

BgtNext == BgtIterate \/ BgtFinish

(***************************************************************************)
(* parseTasks                                                              *)
(*                                                                         *)
(* A line of text is a sequence of one-character strings.  A list item is  *)
(* [line, col, task]: position.start.line, position.start.col and the      *)
(* checkbox character, Undefined for an item without a checkbox.  A        *)
(* heading is [heading, line].  A group carries, besides the fields of     *)
(* TaskGroup, `tasks': the Task objects created for it, in creation order, *)
(* which the positions in openTasks, completedTasks and children refer to. *)
(***************************************************************************)
Undefined == "undefined"
NO_HEADING == "(No heading)"

\* \s, among the characters of the model
IsSpace(c) == c \in {" ", "\t"}
\* [-*+]
IsBullet(c) == c \in {"-", "*", "+"}

\* The first position >= i of s that holds no white space (Len(s) + 1 if none)
RECURSIVE SkipSpaces(_, _)
SkipSpaces(s, i) ==
    IF i <= Len(s) /\ IsSpace(s[i]) THEN SkipSpaces(s, i + 1) ELSE i

\* String.prototype.trim
RECURSIVE TrimEnd(_)
TrimEnd(s) ==
    IF Len(s) > 0 /\ IsSpace(s[Len(s)]) THEN TrimEnd(SubSeq(s, 1, Len(s) - 1)) ELSE s

Trim(s) == TrimEnd(SubSeq(s, SkipSpaces(s, 1), Len(s)))

\* lineText.replace(/^\s*[-*+]\s*\[.\]\s*/, ""): every quantified class is
\* disjoint from what follows it, so the greedy match is the only one.
StripPrefix(s) ==
    LET bullet == SkipSpaces(s, 1)
        open == SkipSpaces(s, bullet + 1)
        matches == /\ bullet <= Len(s) /\ IsBullet(s[bullet])
                   /\ open + 2 <= Len(s)
                   /\ s[open] = "[" /\ s[open + 2] = "]"
    IN  IF matches THEN SubSeq(s, SkipSpaces(s, open + 3), Len(s)) ELSE s

\* line 137
TaskText(lineText) == Trim(StripPrefix(lineText))

\* Map.prototype.get / has: the position of the key in insertion order, 0 if absent
MapIndex(map, key) ==
    IF \E i \in 1..Len(map) : map[i].key = key
    THEN CHOOSE i \in 1..Len(map) : map[i].key = key
    ELSE 0

\* lines 148-157: the task joins the group of its heading's text
MapAdd(map, task, heading) ==
    LET groupKey == IF heading # Null THEN heading.text ELSE NO_HEADING
        headingLine == IF heading # Null THEN heading.line ELSE -1
        at == MapIndex(map, groupKey)
    IN  IF at = 0
        THEN Append(map, [key |-> groupKey, headingLine |-> headingLine, tasks |-> <<task>>])
        ELSE [map EXCEPT ![at].tasks = Append(@, task)]

\* A broken loop body: an item without a checkbox is taken as an open task.
MapStepAll(map, item, lines, headings) ==
    LET lineNum == item.line
    IN  IF ~(lineNum + 1 \in 1..Len(lines)) THEN map
        ELSE LET taskText == TaskText(lines[lineNum + 1])
             IN  IF taskText = <<>> THEN map
                 ELSE MapAdd(map,
                             [text |-> taskText, line |-> lineNum,
                              completed |-> item.task \notin {" ", Undefined},
                              indent |-> item.col],
                             findParentHeading(lineNum, headings))

\* A broken loop body: only a lower-case x completes a task.
MapStepOnlyX(map, item, lines, headings) ==
    LET lineNum == item.line
    IN  IF item.task = Undefined THEN map
        ELSE IF ~(lineNum + 1 \in 1..Len(lines)) THEN map
        ELSE LET taskText == TaskText(lines[lineNum + 1])
             IN  IF taskText = <<>> THEN map
                 ELSE MapAdd(map,
                             [text |-> taskText, line |-> lineNum,
                              completed |-> item.task = "x",
                              indent |-> item.col],
                             findParentHeading(lineNum, headings))

\* lines 130-158: one iteration of the loop over cache.listItems
MapStep(map, item, lines, headings) ==
    LET lineNum == item.line
    IN  IF item.task = Undefined THEN map
        ELSE IF ~(lineNum + 1 \in 1..Len(lines)) THEN map
        ELSE LET taskText == TaskText(lines[lineNum + 1])
             IN  IF taskText = <<>> THEN map
                 ELSE MapAdd(map,
                             [text |-> taskText, line |-> lineNum,
                              completed |-> item.task # " ",
                              indent |-> item.col],
                             findParentHeading(lineNum, headings))

RECURSIVE MapLoop(_, _, _, _, _)
MapLoop(map, items, i, lines, headings) ==
    IF i < Len(items)
    THEN MapLoop(MapStep(map, items[i + 1], lines, headings), items, i + 1, lines, headings)
    ELSE map

\* lines 165-175: the group of one map entry
GroupOf(entry) ==
    LET result == buildGroupTasks(entry.tasks)
    IN  [heading |-> entry.key,
         headingLine |-> entry.headingLine,
         tasks |-> entry.tasks,
         openTasks |-> result.openTasks,
         completedTasks |-> result.completedTasks,
         openCount |-> result.openCount,
         completedCount |-> result.completedCount,
         children |-> result.children]

\* A broken comparator: the operands are swapped.
CompareGroupsReversed(a, b) == b.headingLine - a.headingLine

\* line 177: the comparator handed to sort
CompareGroups(a, b) == a.headingLine - b.headingLine

\* Insertion of g into a sorted array, after every element that compares <= g
RECURSIVE InsertSorted(_, _)
InsertSorted(sorted, g) ==
    IF sorted = <<>> THEN <<g>>
    ELSE IF CompareGroups(sorted[Len(sorted)], g) <= 0 THEN Append(sorted, g)
    ELSE Append(InsertSorted(Pop(sorted), g), sorted[Len(sorted)])

\* line 177: Array.prototype.sort with the comparator, a stable sort
RECURSIVE SortGroups(_)
SortGroups(groups) ==
    IF groups = <<>> THEN <<>>
    ELSE InsertSorted(SortGroups(Pop(groups)), groups[Len(groups)])

EmptyResult == [groups |-> <<>>, totalOpen |-> 0, totalCompleted |-> 0]

\* lines 118: !cache?.listItems
NoListItems(c) == c.isNull \/ ~c.hasListItems

\* lines 122-179, lines == content.split("\n")
ParseBody(c, lines) ==
    LET headings == IF c.hasHeadings THEN c.headings ELSE <<>>
        groupMap == MapLoop(<<>>, c.listItems, 0, lines, headings)
        groups == [i \in 1..Len(groupMap) |-> GroupOf(groupMap[i])]
    IN  [groups |-> SortGroups(groups),
         totalOpen |-> SeqSum([i \in 1..Len(groups) |-> groups[i].openCount]),
         totalCompleted |-> SeqSum([i \in 1..Len(groups) |-> groups[i].completedCount])]

\* The function as the view calls it.
parseTasks(c, lines) ==
    IF NoListItems(c) THEN EmptyResult ELSE ParseBody(c, lines)

(***************************************************************************)
(* The documents parseTasks is run on.  Every line of the outline is a     *)
(* heading, a list item or neither; the cache lists headings and list      *)
(* items in line order.  The line texts are read after the cache (line 122 *)
(* suspends), so they are drawn independently of it: a line may be         *)
(* missing, or hold another text than the one the cache was built from.    *)
(***************************************************************************)
HeadingKinds ==
    [kind : {"heading"}, text : HeadingTexts, col : {0}, task : {Undefined}]

\* Top-level items with and without a checkbox, nested items with one
ItemKinds ==
    [kind : {"item"}, text : {""}, col : {0}, task : {" ", "x", "X", Undefined}]
    \cup [kind : {"item"}, text : {""}, col : {2}, task : {" ", "x"}]

LineKinds ==
    {[kind |-> "other", text |-> "", col |-> 0, task |-> Undefined]}
    \cup HeadingKinds \cup ItemKinds

\* The lines of the given kind, ascending
RECURSIVE LinesOfKind(_, _, _)
LinesOfKind(outline, kind, i) ==
    IF i >= Len(outline) THEN <<>>
    ELSE IF outline[i + 1].kind = kind
         THEN <<i>> \o LinesOfKind(outline, kind, i + 1)
         ELSE LinesOfKind(outline, kind, i + 1)

HeadingsOf(outline) ==
    LET at == LinesOfKind(outline, "heading", 0)
    IN  [k \in 1..Len(at) |-> [heading |-> outline[at[k] + 1].text, line |-> at[k]]]

ListItemsOf(outline) ==
    LET at == LinesOfKind(outline, "item", 0)
    IN  [k \in 1..Len(at) |->
            [line |-> at[k], col |-> outline[at[k] + 1].col, task |-> outline[at[k] + 1].task]]

\* A field the cache leaves out when the document has nothing for it may
\* also be present and empty.
CachesOf(outline) ==
    LET hs == HeadingsOf(outline)
        items == ListItemsOf(outline)
    IN  {[isNull |-> FALSE, hasListItems |-> hl, listItems |-> items,
          hasHeadings |-> hh, headings |-> hs] :
            hl \in (IF items = <<>> THEN BOOLEAN ELSE {TRUE}),
            hh \in (IF hs = <<>> THEN BOOLEAN ELSE {TRUE})}

NullCache ==
    [isNull |-> TRUE, hasListItems |-> FALSE, listItems |-> <<>>,
     hasHeadings |-> FALSE, headings |-> <<>>]

OpenA == <<"-", " ", "[", " ", "]", " ", "a">>                     \* "- [ ] a"
DoneB == <<" ", " ", "-", " ", "[", "x", "]", " ", "b", " ">>      \* "  - [x] b "
TightC == <<"*", "[", "X", "]", "c", " ", "d">>                    \* "*[X]c d"
NoLabel == <<"\t", "+", " ", "[", " ", "]", " ", " ">>             \* "\t+ [ ]  "
HeadingA == <<"#", " ", "A">>                                      \* "# A"
Prose == <<"a", " ", "[", "b", "]">>                               \* "a [b]"
Blank == <<" ">>                                                   \* " "
Empty == <<>>                                                      \* ""

\* What content.split("\n") can be: never without a line
Contents ==
    { <<Empty>>,
      <<OpenA, DoneB, OpenA, DoneB, TightC>>,
      <<HeadingA, OpenA, DoneB, OpenA>>,
      <<TightC, NoLabel, Prose, Blank>>,
      <<NoLabel, OpenA>> }

ParseIdle ==
    /\ cache = NullCache /\ content = <<>> /\ parsePc = "idle" /\ parseResult = EmptyResult

ParseInit ==
    /\ \/ cache = NullCache
       \/ \E outline \in [1..NumLines -> LineKinds] : cache \in CachesOf(outline)
    /\ content \in Contents
    /\ parsePc = "start"
    /\ parseResult = EmptyResult

\* lines 117-120
ParseNoListItems ==
    /\ parsePc = "start"
    /\ NoListItems(cache)
    /\ parseResult' = EmptyResult
    /\ parsePc' = "done"
    /\ UNCHANGED <<cache, content>>
    /\ UNCHANGED <<fphVars, bgtVars, viewVars>>

\* lines 122-179
ParseRun ==
    /\ parsePc = "start"
    /\ ~NoListItems(cache)
    /\ parseResult' = ParseBody(cache, content)
    /\ parsePc' = "done"
    /\ UNCHANGED <<cache, content>>
    /\ UNCHANGED <<fphVars, bgtVars, viewVars>>

ParseNext == ParseNoListItems \/ ParseRun

(***************************************************************************)
(* TaskPanelView: the panel of one view.  A file is known by its path; the *)
(* vault holds the lines of every file, the metadata cache what the host   *)
(* indexed of them.  The panel is the sequence of the children of          *)
(* contentEl: empty-state messages and task lists.                         *)
(***************************************************************************)
NoFile == "null"

\* TFile.extension
Extension(path) == IF path = "c.png" THEN "png" ELSE "md"

\* The text of a heading as the cache holds it
HeadingName(chars) == IF chars = <<"A">> THEN "A" ELSE "B"

\* The host's index of one line: an ATX heading, a list item with or without
\* a checkbox ("- [c] "), or neither
IsHeadingLine(s) == Len(s) >= 3 /\ s[1] = "#" /\ s[2] = " "

IsListItemLine(s) ==
    LET bullet == SkipSpaces(s, 1)
    IN  bullet + 1 <= Len(s) /\ IsBullet(s[bullet]) /\ s[bullet + 1] = " "

CheckboxOf(s) ==
    LET open == SkipSpaces(s, 1) + 2
    IN  IF /\ open + 2 <= Len(s) /\ s[open] = "[" /\ s[open + 2] = "]"
           /\ (open + 2 = Len(s) \/ s[open + 3] = " ")
        THEN s[open + 1]
        ELSE Undefined

\* The lines that are headings, resp. list items, ascending
RECURSIVE LinesWhere(_, _, _)
LinesWhere(lines, headings, i) ==
    IF i >= Len(lines) THEN <<>>
    ELSE IF (IF headings THEN IsHeadingLine(lines[i + 1]) ELSE IsListItemLine(lines[i + 1]))
         THEN <<i>> \o LinesWhere(lines, headings, i + 1)
         ELSE LinesWhere(lines, headings, i + 1)

\* metadataCache.getFileCache(file) once the host has indexed these lines
CacheOfContent(lines) ==
    LET hs == LinesWhere(lines, TRUE, 0)
        items == LinesWhere(lines, FALSE, 0)
    IN  [isNull |-> FALSE,
         hasListItems |-> items # <<>>,
         listItems |-> [k \in 1..Len(items) |->
             [line |-> items[k],
              col |-> SkipSpaces(lines[items[k] + 1], 1) - 1,
              task |-> CheckboxOf(lines[items[k] + 1])]],
         hasHeadings |-> hs # <<>>,
         headings |-> [k \in 1..Len(hs) |->
             [heading |-> HeadingName(SubSeq(lines[hs[k] + 1], 3, Len(lines[hs[k] + 1]))),
              line |-> hs[k]]]]

\* part_001 lines 115-117: renderEmpty
EmptyState(message) == [kind |-> "empty", message |-> message]

\* part_001 lines 167-192: the row of one task, its checkbox bound to the task
Row(task, depth) ==
    [kind |-> "row", depth |-> depth,
     task |-> [text |-> task.text, line |-> task.line, completed |-> task.completed]]

\* part_001 lines 158-163: the rows of the given tasks of a group and, below
\* each, of all its children
RECURSIVE renderTaskList(_, _, _)
renderTaskList(g, tasks, depth) ==
    IF tasks = <<>> THEN <<>>
    ELSE <<Row(g.tasks[Head(tasks) + 1], depth)>>
         \o renderTaskList(g, g.children[Head(tasks) + 1], depth + 1)
         \o renderTaskList(g, Tail(tasks), depth)

\* part_001 lines 119-140: a heading and the rows of every group not skipped
RECURSIVE renderGrouped(_, _)
renderGrouped(groups, showCompleted) ==
    IF groups = <<>> THEN <<>>
    ELSE LET group == Head(groups)
         IN  (IF group.openCount = 0 /\ (~showCompleted \/ group.completedCount = 0)
              THEN <<>>
              ELSE <<[kind |-> "heading", text |-> group.heading]>>
                   \o renderTaskList(group, group.openTasks, 0)
                   \o (IF showCompleted
                       THEN renderTaskList(group, group.completedTasks, 0)
                       ELSE <<>>))
             \o renderGrouped(Tail(groups), showCompleted)

\* part_001 lines 147-149 and 151-154: one pass over the groups
RECURSIVE FlatRows(_, _)
FlatRows(groups, completed) ==
    IF groups = <<>> THEN <<>>
    ELSE renderTaskList(Head(groups),
                        IF completed THEN Head(groups).completedTasks
                                     ELSE Head(groups).openTasks, 0)
         \o FlatRows(Tail(groups), completed)

\* part_001 lines 142-156
renderFlat(groups, showCompleted) ==
    FlatRows(groups, FALSE) \o (IF showCompleted THEN FlatRows(groups, TRUE) ELSE <<>>)

\* part_001 lines 99-112: what refresh adds to the panel once parseTasks has
\* returned; `file' records whose tasks the list shows
RenderResult(result, st, file) ==
    IF result.totalOpen = 0 /\ ~st.showCompleted
    THEN EmptyState("No open tasks")
    ELSE [kind |-> "list", file |-> file,
          items |-> IF st.groupByHeading
                    THEN renderGrouped(result.groups, st.showCompleted)
                    ELSE renderFlat(result.groups, st.showCompleted)]

\* The first position of s from i on where "[ ]" starts or, with `any',
\* where a bracket pair holding any one character starts; 0 if there is none
RECURSIVE FirstBracket(_, _, _)
FirstBracket(s, any, i) ==
    IF i + 2 > Len(s) THEN 0
    ELSE IF s[i] = "[" /\ s[i + 2] = "]" /\ (any \/ s[i + 1] = " ") THEN i
         ELSE FirstBracket(s, any, i + 1)

\* The patterns of toggleTask
AnyChar == TRUE       \* /\[.\]/
SpaceChar == FALSE    \* /\[ \]/

\* String.prototype.replace with a pattern that has no g flag: the first
\* match only, the line itself when nothing matches
ReplaceFirst(s, any, c) ==
    LET at == FirstBracket(s, any, 1)
    IN  IF at = 0 THEN s ELSE [s EXCEPT ![at + 1] = c]

\* part_001 line 81: debounce(() => this.refresh(), 300, true)
DebounceMs == 300
\* The grain of the clock
TickMs == DebounceMs \div 3

\* The host's debounce(cb, timeout, resetTimer) with resetTimer set.  Times
\* are kept relative to now: `remaining' until the timer is due, `extend'
\* until the instant the last call asked the callback to be put off to.
DebounceIdle == [armed |-> FALSE, remaining |-> 0, extend |-> 0]

\* A broken debouncer: later calls do not put the pending run off.
DebounceCallNoReset(d) ==
    IF d.armed
    THEN [timer |-> d, run |-> FALSE]
    ELSE [timer |-> [armed |-> TRUE, remaining |-> DebounceMs, extend |-> 0],
          run |-> FALSE]

\* A call of the debounced function: it never runs the callback itself
DebounceCall(d) ==
    IF d.armed
    THEN [timer |-> [d EXCEPT !.extend = DebounceMs], run |-> FALSE]
    ELSE [timer |-> [armed |-> TRUE, remaining |-> DebounceMs, extend |-> 0],
          run |-> FALSE]

\* The timer is due: the callback runs unless a later call put it off
DebounceExpire(d) ==
    IF d.extend > 0
    THEN [timer |-> [armed |-> TRUE, remaining |-> d.extend, extend |-> 0],
          run |-> FALSE]
    ELSE [timer |-> DebounceIdle, run |-> TRUE]

\* A broken toggle: the completed branch looks for "[ ]" too.
toggleLineOpenOnly(task, line) ==
    IF task.completed
    THEN ReplaceFirst(line, SpaceChar, " ")
    ELSE ReplaceFirst(line, SpaceChar, "x")

\* A broken toggle: both branches check the box.
toggleLineAlwaysCheck(task, line) ==
    IF task.completed
    THEN ReplaceFirst(line, AnyChar, "x")
    ELSE ReplaceFirst(line, SpaceChar, "x")

\* part_001 lines 272-276
toggleLine(task, line) ==
    IF task.completed
    THEN ReplaceFirst(line, AnyChar, " ")      \* line.replace(/\[.\]/, "[ ]")
    ELSE ReplaceFirst(line, SpaceChar, "x")    \* line.replace(/\[ \]/, "[x]")

\* A broken toggleTask: a missing line is not checked for, and what is
\* assigned past the end of the array joins as empty lines.
ToggleDataNoCheck(task, lines) ==
    [write |-> TRUE,
     data |-> [i \in 1..(IF task.line < Len(lines) THEN Len(lines) ELSE task.line + 1) |->
                  IF i = task.line + 1 /\ i <= Len(lines) THEN toggleLine(task, lines[i])
                  ELSE IF i <= Len(lines) THEN lines[i]
                  ELSE <<>>]]

\* part_001 lines 268-279: what toggleTask hands to vault.modify for the
\* lines it read, if it gets that far
ToggleData(task, lines) ==
    IF task.line >= Len(lines)
    THEN [write |-> FALSE, data |-> lines]
    ELSE [write |-> TRUE,
          data |-> [lines EXCEPT ![task.line + 1] = toggleLine(task, @)]]

\* app.metadataCache.getFileCache(file)
FileCache(md, path) == IF path \in DOMAIN md THEN md[path] ELSE NullCache

\* part_001 lines 83-98: refresh() up to its await, for the current file cf,
\* the host's cache md and the settings st: the panel and the suspended
\* refreshes it leaves.  parseTasks suspends only when the cache has list
\* items (taskParser.ts:117-122); otherwise refresh is over at once.
refresh(cf, md, st, pending) ==
    IF cf = NoFile
    THEN [panel |-> <<EmptyState("No active note")>>, refreshes |-> pending]
    ELSE IF Extension(cf) # "md"
    THEN [panel |-> <<EmptyState("Not a markdown file")>>, refreshes |-> pending]
    ELSE IF NoListItems(FileCache(md, cf))
    THEN [panel |-> <<RenderResult(EmptyResult, st, cf)>>, refreshes |-> pending]
    ELSE [panel |-> <<>>,
          refreshes |-> Append(pending, [file |-> cf, cache |-> FileCache(md, cf)])]

\* A step that calls this.refresh()
StartRefresh(cf, md, st) ==
    /\ refreshStarted' = TRUE
    /\ panel' = refresh(cf, md, st, refreshes).panel
    /\ refreshes' = refresh(cf, md, st, refreshes).refreshes

\* A step that does not
NoRefresh == refreshStarted' = FALSE /\ UNCHANGED <<panel, refreshes>>

\* The events of the host
Event(type, path, oldPath) == [type |-> type, path |-> path, oldPath |-> oldPath]
NoEvent == Event("none", NoFile, NoFile)

\* The current burst of change notifications for the current file: how many
\* there were (not counted past two), the time since the last one (not
\* counted past the quiet window and a tick), the debounced refreshes since
\* its first notification and how many of them that first notification ran
\* itself
NoBurst == [count |-> 0, sinceLast |-> DebounceMs + TickMs, runs |-> 0, leading |-> 0]

Min(a, b) == IF a < b THEN a ELSE b
Max(a, b) == IF a > b THEN a ELSE b

\* A notification continues the burst when it comes within the quiet window
\* of the one before; at the very end of the window it does if the timer has
\* not run yet.
Notified(b, d, ran) ==
    LET continues == b.count > 0 /\ (b.sinceLast < DebounceMs
                                     \/ (b.sinceLast = DebounceMs /\ d.armed))
        r == IF ran THEN 1 ELSE 0
    IN  IF continues
        THEN [b EXCEPT !.count = Min(@ + 1, 2), !.sinceLast = 0, !.runs = Min(@ + r, 2)]
        ELSE [count |-> 1, sinceLast |-> 0, runs |-> r, leading |-> r]

\* part_001 lines 30-35: the file-open handler
OnFileOpen(file, md) ==
    /\ currentFile' = file
    /\ StartRefresh(file, md, settings)
    /\ UNCHANGED <<debouncer, burst>>

\* part_001 lines 40-46: the handler of the metadata cache's `changed'
OnChanged(path, md) ==
    /\ UNCHANGED currentFile
    /\ IF currentFile # NoFile /\ path = currentFile
       THEN LET call == DebounceCall(debouncer)
            IN  /\ debouncer' = call.timer
                /\ burst' = Notified(burst, debouncer, call.run)
                /\ IF call.run THEN StartRefresh(currentFile, md, settings) ELSE NoRefresh
       ELSE /\ UNCHANGED <<debouncer, burst>>
            /\ NoRefresh

\* part_001 lines 48-55: the rename handler
OnRename(file, oldPath, isFile, md) ==
    /\ IF currentFile # NoFile /\ oldPath = currentFile /\ isFile
       THEN /\ currentFile' = file
            /\ StartRefresh(file, md, settings)
       ELSE /\ UNCHANGED currentFile
            /\ NoRefresh
    /\ UNCHANGED <<debouncer, burst>>

\* A broken delete handler: the path of the deleted file is not looked at.
OnDeleteAny(path, md) ==
    /\ IF currentFile # NoFile
       THEN /\ currentFile' = NoFile
            /\ StartRefresh(NoFile, md, settings)
       ELSE /\ UNCHANGED currentFile
            /\ NoRefresh
    /\ UNCHANGED <<debouncer, burst>>

\* part_001 lines 57-64: the delete handler
OnDelete(path, md) ==
    /\ IF currentFile # NoFile /\ path = currentFile
       THEN /\ currentFile' = NoFile
            /\ StartRefresh(NoFile, md, settings)
       ELSE /\ UNCHANGED currentFile
            /\ NoRefresh
    /\ UNCHANGED <<debouncer, burst>>

\* The paths a file can have
Paths == {"a.md", "b.md", "c.png", "d.md"}
\* The markdown files of the vault
Notes == {p \in DOMAIN vault : Extension(p) = "md"}

OtherVars == <<fphVars, bgtVars, parseVars>>

\* workspace `file-open': a file of the vault, or none
FileOpen ==
    /\ events < MaxEvents
    /\ \E f \in {NoFile} \cup DOMAIN vault :
           /\ lastEvent' = Event("file-open", f, NoFile)
           /\ OnFileOpen(f, metadata)
    /\ events' = events + 1
    /\ UNCHANGED <<vault, metadata, settings, toggles, edits, writes>>
    /\ UNCHANGED OtherVars

\* The host has indexed a note again and the cache emits `changed'
Changed ==
    /\ events < MaxEvents
    /\ \E p \in Notes :
           /\ metadata' = [metadata EXCEPT ![p] = CacheOfContent(vault[p])]
           /\ lastEvent' = Event("changed", p, NoFile)
           /\ OnChanged(p, metadata')
    /\ events' = events + 1
    /\ UNCHANGED <<vault, settings, toggles, edits, writes>>
    /\ UNCHANGED OtherVars

\* vault `rename' of a file to a free path
Rename ==
    /\ events < MaxEvents
    /\ \E old \in DOMAIN vault : \E new \in Paths \ DOMAIN vault :
           LET moved == (DOMAIN vault \ {old}) \cup {new}
           IN  /\ vault' = [p \in moved |-> IF p = new THEN vault[old] ELSE vault[p]]
               /\ metadata' = [p \in moved |-> IF p = new THEN metadata[old] ELSE metadata[p]]
               /\ lastEvent' = Event("rename", new, old)
               /\ OnRename(new, old, TRUE, metadata')
    /\ events' = events + 1
    /\ UNCHANGED <<settings, toggles, edits, writes>>
    /\ UNCHANGED OtherVars

\* vault `rename' of a folder: what is renamed is no TFile
RenameFolder ==
    /\ events < MaxEvents
    /\ lastEvent' = Event("rename", "archive", "notes")
    /\ OnRename("archive", "notes", FALSE, metadata)
    /\ events' = events + 1
    /\ UNCHANGED <<vault, metadata, settings, toggles, edits, writes>>
    /\ UNCHANGED OtherVars

\* vault `delete' of a file
Delete ==
    /\ events < MaxEvents
    /\ \E p \in DOMAIN vault :
           /\ vault' = [q \in DOMAIN vault \ {p} |-> vault[q]]
           /\ metadata' = [q \in DOMAIN vault \ {p} |-> metadata[q]]
           /\ lastEvent' = Event("delete", p, NoFile)
           /\ OnDelete(p, metadata')
    /\ events' = events + 1
    /\ UNCHANGED <<settings, toggles, edits, writes>>
    /\ UNCHANGED OtherVars

\* part_001 lines 75-77, called when the layout is ready (part_000 lines 110-120)
Redraw ==
    /\ events < MaxEvents
    /\ lastEvent' = Event("redraw", NoFile, NoFile)
    /\ StartRefresh(currentFile, metadata, settings)
    /\ events' = events + 1
    /\ UNCHANGED <<currentFile, vault, metadata, settings, debouncer, toggles, edits,
                   writes, burst>>
    /\ UNCHANGED OtherVars

\* settings.ts lines 101-122: a toggle of the settings tab changes a setting,
\* and saveSettings redraws the view (part_000 lines 135-148)
SaveSettings ==
    /\ events < MaxEvents
    /\ \E st \in [showCompleted : BOOLEAN, groupByHeading : BOOLEAN] :
           /\ \/ /\ st.showCompleted # settings.showCompleted
                 /\ st.groupByHeading = settings.groupByHeading
              \/ /\ st.showCompleted = settings.showCompleted
                 /\ st.groupByHeading # settings.groupByHeading
           /\ settings' = st
           /\ StartRefresh(currentFile, metadata, st)
    /\ lastEvent' = Event("settings", NoFile, NoFile)
    /\ events' = events + 1
    /\ UNCHANGED <<currentFile, vault, metadata, debouncer, toggles, edits, writes, burst>>
    /\ UNCHANGED OtherVars

\* Time passes; a timer that is due runs first
Tick ==
    /\ debouncer.armed => debouncer.remaining >= TickMs
    /\ debouncer.armed \/ burst.sinceLast < DebounceMs + TickMs
    /\ debouncer' = IF debouncer.armed
                    THEN [debouncer EXCEPT !.remaining = @ - TickMs,
                                           !.extend = Max(@ - TickMs, 0)]
                    ELSE debouncer
    /\ burst' = [burst EXCEPT !.sinceLast = Min(@ + TickMs, DebounceMs + TickMs)]
    /\ lastEvent' = NoEvent
    /\ NoRefresh
    /\ UNCHANGED <<currentFile, vault, metadata, settings, toggles, edits, writes, events>>
    /\ UNCHANGED OtherVars

\* The timer of debouncedRefresh is due
TimerFire ==
    /\ debouncer.armed /\ debouncer.remaining = 0
    /\ LET expire == DebounceExpire(debouncer)
       IN  /\ debouncer' = expire.timer
           /\ IF expire.run
              THEN /\ StartRefresh(currentFile, metadata, settings)
                   /\ burst' = [burst EXCEPT !.runs = Min(@ + 1, 2)]
              ELSE /\ NoRefresh
                   /\ UNCHANGED burst
    /\ lastEvent' = NoEvent
    /\ UNCHANGED <<currentFile, vault, metadata, settings, toggles, edits, writes, events>>
    /\ UNCHANGED OtherVars

\* The sequence s without its k-th element
Without(s, k) == SubSeq(s, 1, k - 1) \o SubSeq(s, k + 1, Len(s))

\* part_001 lines 98-112 and taskParser.ts:122-179: the read of a suspended
\* refresh is over; it parses what the file holds now with the cache it got
\* at the start and adds the outcome to the panel.  The read of a file that
\* is gone fails and the refresh with it.
RefreshResume ==
    /\ \E k \in 1..Len(refreshes) :
           LET r == refreshes[k]
           IN  /\ refreshes' = Without(refreshes, k)
               /\ panel' = IF r.file \in DOMAIN vault
                           THEN Append(panel,
                                    RenderResult(ParseBody(r.cache, vault[r.file]),
                                                 settings, r.file))
                           ELSE panel
    /\ refreshStarted' = FALSE
    /\ lastEvent' = NoEvent
    /\ UNCHANGED <<currentFile, vault, metadata, settings, debouncer, toggles, edits,
                   writes, burst, events>>
    /\ UNCHANGED OtherVars

\* part_001 lines 176-182 and 265-266: a click on the checkbox of a row calls
\* toggleTask with the task of that row; it returns at once without a
\* current file and starts to read the file otherwise
ToggleCall(task) ==
    [task |-> task,
     pc |-> IF currentFile = NoFile THEN "done" ELSE "read",
     noFile |-> currentFile = NoFile,
     file |-> currentFile,
     lines |-> <<>>, data |-> <<>>,
     wrote |-> FALSE, threw |-> FALSE, readAt |-> 0, wroteAt |-> 0]

Click ==
    /\ Len(toggles) + Len(edits) < MaxActs
    /\ \E b \in 1..Len(panel) :
           /\ panel[b].kind = "list"
           /\ \E i \in 1..Len(panel[b].items) :
                  /\ panel[b].items[i].kind = "row"
                  /\ toggles' = Append(toggles, ToggleCall(panel[b].items[i].task))
    /\ lastEvent' = NoEvent
    /\ NoRefresh
    /\ UNCHANGED <<currentFile, vault, metadata, settings, debouncer, edits, writes,
                   burst, events>>
    /\ UNCHANGED OtherVars

\* part_001 lines 267-279: the read is over; toggleTask returns when the line
\* is missing and hands the changed lines to vault.modify otherwise, for
\* what this.currentFile is by then
ToggleRead ==
    /\ \E t \in 1..Len(toggles) :
           /\ toggles[t].pc = "read"
           /\ LET call == toggles[t]
                  lines == vault[call.file]
                  out == ToggleData(call.task, lines)
              IN  toggles' =
                      [toggles EXCEPT ![t] =
                          IF call.file \notin DOMAIN vault
                          THEN [call EXCEPT !.pc = "done", !.threw = TRUE]
                          ELSE IF ~out.write
                          THEN [call EXCEPT !.pc = "done", !.lines = lines, !.readAt = writes]
                          ELSE IF currentFile = NoFile
                          THEN [call EXCEPT !.pc = "done", !.lines = lines,
                                            !.readAt = writes, !.threw = TRUE]
                          ELSE [call EXCEPT !.pc = "write", !.lines = lines,
                                            !.readAt = writes, !.data = out.data,
                                            !.file = currentFile]]
    /\ lastEvent' = NoEvent
    /\ NoRefresh
    /\ UNCHANGED <<currentFile, vault, metadata, settings, debouncer, edits, writes,
                   burst, events>>
    /\ UNCHANGED OtherVars

\* part_001 line 279: vault.modify writes the whole content
ToggleWrite ==
    /\ \E t \in 1..Len(toggles) :
           /\ toggles[t].pc = "write"
           /\ IF toggles[t].file \in DOMAIN vault
              THEN /\ vault' = [vault EXCEPT ![toggles[t].file] = toggles[t].data]
                   /\ writes' = writes + 1
                   /\ toggles' = [toggles EXCEPT ![t].pc = "done", ![t].wrote = TRUE,
                                                 ![t].wroteAt = writes + 1]
              ELSE /\ UNCHANGED <<vault, writes>>
                   /\ toggles' = [toggles EXCEPT ![t].pc = "done", ![t].threw = TRUE]
    /\ lastEvent' = NoEvent
    /\ NoRefresh
    /\ UNCHANGED <<currentFile, metadata, settings, debouncer, edits, burst, events>>
    /\ UNCHANGED OtherVars

\* The texts an edit in the editor gives a line
BracketsD == <<"-", " ", "[", "x", "]", " ", "d", " ", "[", " ", "]">>  \* "- [x] d [ ]"
EditTexts == {Prose, BracketsD}

\* The user changes a line of a note in the editor
EditLine ==
    /\ Len(toggles) + Len(edits) < MaxActs
    /\ \E p \in Notes : \E i \in 1..Len(vault[p]) : \E text \in EditTexts :
           /\ text # vault[p][i]
           /\ vault' = [vault EXCEPT ![p][i] = text]
           /\ edits' = Append(edits, [path |-> p, line |-> i - 1, text |-> text, cut |-> FALSE])
    /\ writes' = writes + 1
    /\ lastEvent' = NoEvent
    /\ NoRefresh
    /\ UNCHANGED <<currentFile, metadata, settings, debouncer, toggles, burst, events>>
    /\ UNCHANGED OtherVars

\* The user removes the last line of a note in the editor
CutLastLine ==
    /\ Len(toggles) + Len(edits) < MaxActs
    /\ \E p \in Notes :
           /\ Len(vault[p]) > 1
           /\ vault' = [vault EXCEPT ![p] = SubSeq(@, 1, Len(@) - 1)]
           /\ edits' = Append(edits, [path |-> p, line |-> Len(vault[p]) - 1,
                                      text |-> <<>>, cut |-> TRUE])
    /\ writes' = writes + 1
    /\ lastEvent' = NoEvent
    /\ NoRefresh
    /\ UNCHANGED <<currentFile, metadata, settings, debouncer, toggles, burst, events>>
    /\ UNCHANGED OtherVars

\* settings.ts lines 80-83
DEFAULT_SETTINGS == [showCompleted |-> TRUE, groupByHeading |-> TRUE]

\* No view
ViewIdle ==
    /\ currentFile = NoFile /\ vault = <<>> /\ metadata = <<>>
    /\ settings = DEFAULT_SETTINGS /\ panel = <<>> /\ refreshes = <<>>
    /\ debouncer = DebounceIdle /\ toggles = <<>> /\ edits = <<>> /\ writes = 0
    /\ lastEvent = NoEvent /\ refreshStarted = FALSE /\ burst = NoBurst /\ events = 0

\* part_001 lines 29-68: the view after onOpen, over the given files, active
\* file and settings
Opened(files, active, st) ==
    /\ vault = files
    /\ metadata = [p \in DOMAIN files |-> CacheOfContent(files[p])]
    /\ settings = st
    /\ currentFile = active
    /\ panel = refresh(active, metadata, st, <<>>).panel
    /\ refreshes = refresh(active, metadata, st, <<>>).refreshes
    /\ debouncer = DebounceIdle /\ toggles = <<>> /\ edits = <<>> /\ writes = 0
    /\ lastEvent = NoEvent /\ refreshStarted = TRUE /\ burst = NoBurst /\ events = 0

\* The notes of the model
OpenC == <<" ", " ", "-", " ", "[", " ", "]", " ", "c">>           \* "  - [ ] c"
DoneD == <<"-", " ", "[", "x", "]", " ", "d">>                     \* "- [x] d"
DocA == <<HeadingA, OpenA, DoneB>>
DocB == <<DoneD, OpenC>>

\* The host events of a vault of two notes and a picture
ViewInit ==
    \E active \in {NoFile, "a.md", "b.md", "c.png"} :
        Opened([p \in {"a.md", "b.md", "c.png"} |->
                   IF p = "a.md" THEN DocA ELSE IF p = "b.md" THEN DocB ELSE <<Empty>>],
               active, DEFAULT_SETTINGS)

ViewNext ==
    \/ FileOpen \/ Changed \/ Rename \/ RenameFolder \/ Delete \/ Redraw \/ SaveSettings
    \/ Tick \/ TimerFire \/ RefreshResume

\* The checkboxes of one note
ToggleDocs ==
    { <<OpenA, DoneB, Prose>>,
      <<DoneD, OpenC>> }

ToggleInit ==
    \E doc \in ToggleDocs : Opened([p \in {"a.md"} |-> doc], "a.md", DEFAULT_SETTINGS)

\* A click once the toggles before it are over
ClickIdle == (\A t \in 1..Len(toggles) : toggles[t].pc = "done") /\ Click

\* One toggle at a time, with edits in the editor, and the panel redrawn at
\* any time
ToggleNext ==
    \/ ClickIdle \/ ToggleRead \/ ToggleWrite \/ EditLine \/ CutLastLine
    \/ Changed \/ Redraw \/ FileOpen \/ RefreshResume

\* The rendering of every note of NumLines lines
RenderTexts == {HeadingA, OpenA, DoneD, OpenC, DoneB, Prose}

RenderInit ==
    \E doc \in [1..NumLines -> RenderTexts] :
        \E st \in [showCompleted : BOOLEAN, groupByHeading : BOOLEAN] :
            Opened([p \in {"a.md"} |-> doc], "a.md", st)

RenderNext == RefreshResume

\* Clicks in quick succession and edits in the editor
RaceNext == Click \/ ToggleRead \/ ToggleWrite \/ EditLine \/ RefreshResume

(***************************************************************************)
(* Specifications: one per function, the other functions' variables idle.  *)
(***************************************************************************)
InitFph == FphInit /\ BgtIdle /\ ParseIdle /\ ViewIdle
SpecFph == InitFph /\ [][FphNext]_vars

InitBuild == BgtInit /\ FphIdle /\ ParseIdle /\ ViewIdle
SpecBuild == InitBuild /\ [][BgtNext]_vars

InitParse == ParseInit /\ FphIdle /\ BgtIdle /\ ViewIdle
SpecParse == InitParse /\ [][ParseNext]_vars

InitView == ViewInit /\ FphIdle /\ BgtIdle /\ ParseIdle
SpecView == InitView /\ [][ViewNext]_vars
\* Time passes and a timer that is due runs
FairView == SpecView /\ WF_vars(Tick) /\ WF_vars(TimerFire)

InitToggle == ToggleInit /\ FphIdle /\ BgtIdle /\ ParseIdle
SpecToggle == InitToggle /\ [][ToggleNext]_vars

InitRender == RenderInit /\ FphIdle /\ BgtIdle /\ ParseIdle
SpecRender == InitRender /\ [][RenderNext]_vars

SpecRace == InitToggle /\ [][RaceNext]_vars

(***************************************************************************)
(* Properties of findParentHeading (SpecFph)                               *)
(***************************************************************************)
\* The headings (as returned values) that start at or before the line
AtOrBefore(line, headings) ==
    {HeadingAt(headings, i) : i \in {j \in 0..(Len(headings) - 1) : headings[j + 1].line <= line}}

\* C1: findParentHeading terminates (each iteration shrinks the window
\* lo..hi, which stays inside the array, so there are fewer iterations than
\* headings) and returns null when no heading starts at or before the line,
\* and otherwise a heading of the greatest start line <= the line, a heading
\* starting on the line itself included; the result is that of the
\* left-to-right linear scan.
C1_FindParentHeading ==
    /\ fphPc = "loop" =>
          /\ 0 <= lo /\ lo <= hi /\ hi <= Len(fphHeadings) - 1
          /\ fphIters + (hi - lo) <= Len(fphHeadings) - 1
    /\ fphPc = "done" =>
          /\ fphResult = findParentHeadingLinear(fphLine, fphHeadings)
          /\ IF AtOrBefore(fphLine, fphHeadings) = {}
             THEN fphResult = Null
             ELSE /\ fphResult \in AtOrBefore(fphLine, fphHeadings)
                  /\ \A h \in AtOrBefore(fphLine, fphHeadings) : h.line <= fphResult.line

\* The search ran two iterations over three headings and returned a heading
\* that starts exactly on the line, with a later heading after it.
C1_Witness ==
    /\ fphPc = "done"
    /\ Len(fphHeadings) = 3
    /\ fphIters = 2
    /\ fphResult # Null
    /\ fphResult.line = fphLine
    /\ fphHeadings[3].line > fphLine

(***************************************************************************)
(* Properties of buildGroupTasks (SpecBuild)                               *)
(***************************************************************************)
TaskIds == 0..(Len(flatTasks) - 1)
Indent(i) == flatTasks[i + 1].indent
Completed(i) == flatTasks[i + 1].completed
Kids(i) == bgtResult.children[i + 1]
ParentsOf(b) == {a \in TaskIds : b \in Range(Kids(a))}
ResultRoots == Range(bgtResult.openTasks) \cup Range(bgtResult.completedTasks)

SetMax(S) == CHOOSE x \in S : \A y \in S : y <= x
SetMin(S) == CHOOSE x \in S : \A y \in S : x <= y

\* The elements of a set of numbers, ascending
RECURSIVE Ascending(_)
Ascending(S) == IF S = {} THEN <<>> ELSE <<SetMin(S)>> \o Ascending(S \ {SetMin(S)})

\* The preceding tasks of smaller indent
Shallower(b) == {a \in TaskIds : a < b /\ Indent(a) < Indent(b)}

\* The parent of every task is its nearest preceding shallower task, and the
\* tasks without one are the roots.
NearestShallowerParent ==
    \A b \in TaskIds :
        IF Shallower(b) = {}
        THEN ParentsOf(b) = {} /\ b \in ResultRoots
        ELSE LET a == SetMax(Shallower(b))
             IN  /\ ParentsOf(b) = {a}
                 /\ b \notin ResultRoots
                 /\ \A c \in (a + 1)..(b - 1) : Indent(c) > Indent(a)

\* Two tasks b < c of equal indent after a shallower task a, no task between
\* a and c being at a's indent or shallower: both are children of a.
SiblingsUnderOpenAncestor ==
    \A a, b, c \in TaskIds :
        (/\ a < b /\ b < c
         /\ Indent(b) = Indent(c) /\ Indent(a) < Indent(b)
         /\ \A t \in (a + 1)..(c - 1) : Indent(t) > Indent(a))
        => /\ ParentsOf(b) = {a} /\ ParentsOf(c) = {a}
           /\ b \notin Range(Kids(c)) /\ c \notin Range(Kids(b))

\* The same, no task between a and c being shallower than b and c.
SiblingsUnderNearestShallower ==
    \A a, b, c \in TaskIds :
        (/\ a < b /\ b < c
         /\ Indent(b) = Indent(c) /\ Indent(a) < Indent(b)
         /\ \A t \in (a + 1)..(c - 1) : Indent(t) >= Indent(b))
        => /\ ParentsOf(b) = {a} /\ ParentsOf(c) = {a}
           /\ b \notin Range(Kids(c)) /\ c \notin Range(Kids(b))

\* C2 as stated: the parent of a task is its nearest preceding shallower task,
\* a task is a root exactly when none precedes it, and two tasks of equal
\* indent that follow a shallower task with nothing at that task's indent or
\* shallower in between are both children of that task.
C2_AsStated ==
    bgtPc = "done" => NearestShallowerParent /\ SiblingsUnderOpenAncestor

\* C2 amended: the parent of a task is its nearest preceding shallower task,
\* a task is a root exactly when none precedes it, and two tasks of equal
\* indent that follow a shallower task with nothing shallower than the two in
\* between are both children of that task, neither nested in the other.
C2_NearestShallowerParent ==
    bgtPc = "done" => NearestShallowerParent /\ SiblingsUnderNearestShallower

\* A parent with two children of equal indent, a deeper task between them,
\* followed by a root.
C2_Witness ==
    /\ bgtPc = "done"
    /\ \E a, b, c \in TaskIds :
          /\ b < c /\ Indent(b) = Indent(c)
          /\ ParentsOf(b) = {a} /\ ParentsOf(c) = {a}
          /\ \E t \in (b + 1)..(c - 1) : Indent(t) > Indent(b)
          /\ \E r \in ResultRoots : r > c

\* Every task below p in the forest
RECURSIVE Descendants(_)
Descendants(p) == Range(Kids(p)) \cup UNION {Descendants(c) : c \in Range(Kids(p))}

\* In a list of siblings, everything below one of them precedes the next.
SubtreesBeforeNextSibling(siblings) ==
    \A k \in 1..(Len(siblings) - 1) :
        \A d \in Descendants(siblings[k]) : d < siblings[k + 1]

\* C3: every child is deeper than its parent and comes after it, and every
\* descendant of a task comes before the task's next sibling (the next root,
\* for a root).
C3_IndentHierarchy ==
    bgtPc = "done" =>
        /\ \A p \in TaskIds : \A c \in Range(Kids(p)) : Indent(c) > Indent(p) /\ c > p
        /\ \A p \in TaskIds : SubtreesBeforeNextSibling(Kids(p))
        /\ SubtreesBeforeNextSibling(roots)

\* A root with a grandchild and a next root, and a child with a child of its
\* own and a next sibling.
C3_Witness ==
    /\ bgtPc = "done"
    /\ Len(roots) >= 2
    /\ \E c \in Range(Kids(roots[1])) :
          /\ Kids(c) # <<>>
          /\ \E k \in 1..(Len(Kids(roots[1])) - 1) : Kids(roots[1])[k] = c

\* The tasks of a list and all below them, depth first
RECURSIVE Preorder(_)
Preorder(tasks) ==
    IF tasks = <<>> THEN <<>>
    ELSE <<Head(tasks)>> \o Preorder(Kids(Head(tasks))) \o Preorder(Tail(tasks))

Occurrences(s, x) == Cardinality({k \in 1..Len(s) : s[k] = x})

\* C4: the two counts add up to the number of input tasks, openCount is the
\* number of input tasks that are not completed and completedCount the number
\* that are, and every input task occurs exactly once in the forest.
C4_Counts ==
    bgtPc = "done" =>
        /\ bgtResult.openCount + bgtResult.completedCount = Len(flatTasks)
        /\ bgtResult.openCount = Cardinality({i \in TaskIds : ~Completed(i)})
        /\ bgtResult.completedCount = Cardinality({i \in TaskIds : Completed(i)})
        /\ LET forest == Preorder(bgtResult.openTasks) \o Preorder(bgtResult.completedTasks)
           IN  \A i \in TaskIds : Occurrences(forest, i) = 1

\* Open and completed tasks both among the roots and below them.
C4_Witness ==
    /\ bgtPc = "done"
    /\ bgtResult.openTasks # <<>> /\ bgtResult.completedTasks # <<>>
    /\ \E i, j \in TaskIds \ ResultRoots : Completed(i) /\ ~Completed(j)
    /\ bgtResult.openCount >= 2 /\ bgtResult.completedCount >= 2

\* C5: openTasks is the sequence of the roots (the tasks that are nobody's
\* child) that are not completed, completedTasks that of the completed
\* roots, both in input order and whatever the flags below the root; no
\* other task is in either, and every root is in exactly one of them.
C5_RootBuckets ==
    bgtPc = "done" =>
        LET Roots == {i \in TaskIds : ParentsOf(i) = {}}
        IN  /\ bgtResult.openTasks = Ascending({r \in Roots : ~Completed(r)})
            /\ bgtResult.completedTasks = Ascending({r \in Roots : Completed(r)})
            /\ \A i \in TaskIds :
                  Occurrences(bgtResult.openTasks, i) + Occurrences(bgtResult.completedTasks, i)
                      = IF i \in Roots THEN 1 ELSE 0

\* An open root with a completed child and a completed root with an open one.
C5_Witness ==
    /\ bgtPc = "done"
    /\ \E r \in Range(bgtResult.openTasks) : \E c \in Range(Kids(r)) : Completed(c)
    /\ \E r \in Range(bgtResult.completedTasks) : \E c \in Range(Kids(r)) : ~Completed(c)

(***************************************************************************)
(* Properties of parseTasks (SpecParse)                                    *)
(***************************************************************************)
Groups == parseResult.groups
Headings == IF cache.hasHeadings THEN cache.headings ELSE <<>>

\* A list item parseTasks has to emit a task for: it has a checkbox, its line
\* is in the content, and its text is not empty once stripped and trimmed.
Accepted(item) ==
    /\ item.task # Undefined
    /\ item.line < Len(content)
    /\ TaskText(content[item.line + 1]) # <<>>

AcceptedItems == SelectSeq(cache.listItems, Accepted)

\* The task of an accepted item
TaskOf(item) ==
    [text |-> TaskText(content[item.line + 1]), line |-> item.line,
     completed |-> item.task # " ", indent |-> item.col]

\* The tasks of a group reached from a list of its tasks, depth first
RECURSIVE GroupPreorder(_, _)
GroupPreorder(g, tasks) ==
    IF tasks = <<>> THEN <<>>
    ELSE <<g.tasks[Head(tasks) + 1]>>
         \o GroupPreorder(g, g.children[Head(tasks) + 1])
         \o GroupPreorder(g, Tail(tasks))

\* Every task of a group's forest
GroupForest(g) == GroupPreorder(g, g.openTasks) \o GroupPreorder(g, g.completedTasks)

\* Every task of the result: all groups, all depths
RECURSIVE Emitted(_)
Emitted(groups) ==
    IF groups = <<>> THEN <<>> ELSE GroupForest(Head(groups)) \o Emitted(Tail(groups))

\* The start line of the heading enclosing a line, -1 without one
EnclosingHeadingLine(line) ==
    LET before == {Headings[k].line : k \in {j \in 1..Len(Headings) : Headings[j].line <= line}}
    IN  IF before = {} THEN -1 ELSE SetMax(before)

\* C6 as stated: every task of a group, at any depth, is enclosed by the
\* heading that starts on the group's headingLine (by none when it is -1), so
\* tasks of different headings never share a group.
C6_AsStated ==
    parsePc = "done" =>
        \A k \in 1..Len(Groups) :
            \A t \in Range(GroupForest(Groups[k])) :
                Groups[k].headingLine = EnclosingHeadingLine(t.line)

C8_NoHeadingGroup ==
    parsePc = "done" /\ ~NoListItems(cache) =>
        /\ \A k \in 1..Len(AcceptedItems) :
              LET item == AcceptedItems[k]
              IN  (Headings = <<>> \/ item.line < Headings[1].line) =>
                     /\ Groups # <<>>
                     /\ Groups[1].heading = NO_HEADING
                     /\ Groups[1].headingLine = -1
                     /\ TaskOf(item) \in Range(GroupForest(Groups[1]))
        /\ (Headings = <<>> /\ AcceptedItems # <<>>) => Len(Groups) = 1

\* Two accepted items before the first heading and one after it.
C8_Witness ==
    /\ parsePc = "done"
    /\ Headings # <<>>
    /\ Len(Groups) = 2
    /\ Len(SelectSeq(AcceptedItems, LAMBDA item : item.line < Headings[1].line)) = 2
    /\ \E k \in 1..Len(AcceptedItems) : AcceptedItems[k].line > Headings[1].line
    /\ Groups[1].headingLine = -1

\* C9: the tasks of the result, over all groups and depths, are the tasks of
\* the accepted list items, one each (an item without a checkbox, with a
\* missing line or with an empty text has none, whatever the other items
\* are); none has an empty text; and without list-item information the result
\* is the empty group list with zero totals.
C9_EmittedTasks ==
    parsePc = "done" =>
        IF NoListItems(cache)
        THEN parseResult = EmptyResult
        ELSE LET emitted == Emitted(Groups)
                 expected == [k \in 1..Len(AcceptedItems) |-> TaskOf(AcceptedItems[k])]
             IN  /\ Len(emitted) = Len(expected)
                 /\ \A k \in 1..Len(expected) : Occurrences(emitted, expected[k]) = 1
                 /\ \A k \in 1..Len(emitted) : emitted[k].text # <<>>

\* One item of each sort is dropped (no checkbox, line missing, empty text)
\* and one is kept.
C9_Witness ==
    /\ parsePc = "done"
    /\ Len(Emitted(Groups)) = 1
    /\ \E i, j, k \in 1..Len(cache.listItems) :
          /\ cache.listItems[i].task = Undefined
          /\ cache.listItems[j].task # Undefined
          /\ cache.listItems[j].line >= Len(content)
          /\ cache.listItems[k].task # Undefined
          /\ cache.listItems[k].line < Len(content)
          /\ TaskText(content[cache.listItems[k].line + 1]) = <<>>

\* C10: totalOpen is the sum of the groups' openCount and the number of
\* accepted items whose checkbox character is a space; totalCompleted is the
\* sum of completedCount and the number of accepted items with any other
\* checkbox character.
C10_Totals ==
    parsePc = "done" /\ ~NoListItems(cache) =>
        /\ parseResult.totalOpen = SeqSum([k \in 1..Len(Groups) |-> Groups[k].openCount])
        /\ parseResult.totalCompleted
              = SeqSum([k \in 1..Len(Groups) |-> Groups[k].completedCount])
        /\ parseResult.totalOpen
              = Len(SelectSeq(AcceptedItems, LAMBDA item : item.task = " "))
        /\ parseResult.totalCompleted
              = Len(SelectSeq(AcceptedItems, LAMBDA item : item.task # " "))

\* Two groups, an open task and one checked with X, and a dropped checkbox
\* item.
C10_Witness ==
    /\ parsePc = "done"
    /\ Len(Groups) = 2
    /\ parseResult.totalOpen = 1
    /\ parseResult.totalCompleted = 1
    /\ \E i \in 1..Len(AcceptedItems) : AcceptedItems[i].task = "X"
    /\ \E i \in 1..Len(cache.listItems) :
          cache.listItems[i].task # Undefined /\ ~Accepted(cache.listItems[i])

\* ---------------------------------------------------------------------------
\* C20

\* A sequence of task indices in strictly ascending order
AscendingSeq(s) == \A i, j \in 1..Len(s) : i < j => s[i] < s[j]

\* The indices of a group's tasks reached from a list of them, depth first
RECURSIVE IndexPreorder(_, _)
IndexPreorder(g, tasks) ==
    IF tasks = <<>> THEN <<>>
    ELSE <<Head(tasks)>>
         \o IndexPreorder(g, g.children[Head(tasks) + 1])
         \o IndexPreorder(g, Tail(tasks))

\* A sequence of indices that is a run k, k+1, k+2, ... of consecutive ones
ContiguousRun(s) == \A i \in 1..Len(s) : s[i] = s[1] + (i - 1)

\* C20: within every group of the result the tasks keep the order of their
\* list items in the input: the group's tasks are in ascending line order,
\* openTasks, completedTasks and every children sequence are in that order,
\* and the depth-first walk of each root's subtree visits a contiguous run of
\* the group's tasks in that order.
C20_InputOrder ==
    parsePc = "done" =>
        \A k \in 1..Len(Groups) :
            LET g == Groups[k]
            IN  /\ \A i, j \in 1..Len(g.tasks) : i < j => g.tasks[i].line < g.tasks[j].line
                /\ AscendingSeq(g.openTasks)
                /\ AscendingSeq(g.completedTasks)
                /\ \A i \in 1..Len(g.tasks) : AscendingSeq(g.children[i])
                /\ \A r \in Range(g.openTasks) \cup Range(g.completedTasks) :
                       ContiguousRun(IndexPreorder(g, <<r>>))

\* Reached: a group with two open roots, the first of them with two children
C20_Witness ==
    /\ parsePc = "done"
    /\ \E k \in 1..Len(Groups) :
           /\ Len(Groups[k].openTasks) = 2
           /\ Len(Groups[k].children[1]) = 2
           /\ Groups[k].openTasks = <<0, 3>>

\* ---------------------------------------------------------------------------
\* C11 - C15: toggleTask

Calls == {toggles[t] : t \in 1..Len(toggles)}

\* The call has read the file
HasRead(call) == call.lines # <<>>
\* The call has handed lines to vault.modify
HasData(call) == call.data # <<>>

\* The position of the character between the brackets of the checkbox of a
\* list item line, 0 for any other line
CheckboxAt(s) == IF IsListItemLine(s) /\ CheckboxOf(s) # Undefined
                 THEN SkipSpaces(s, 1) + 3
                 ELSE 0

\* Line `new' is line `old' but for the character of old's checkbox
SameButCheckbox(old, new) ==
    /\ Len(new) = Len(old)
    /\ \A j \in 1..Len(old) : j # CheckboxAt(old) => new[j] = old[j]

\* The lines differ at most on the line of the call's task
SameButTaskLine(call) ==
    /\ Len(call.data) = Len(call.lines)
    /\ \A i \in 1..Len(call.lines) : i # call.task.line + 1 => call.data[i] = call.lines[i]

\* C11: whatever the file holds when toggleTask reads it, what it writes
\* differs from what it read at most in the character between the brackets of
\* the checkbox of the list item on line task.line; a line that is not a
\* checkbox item is written back as it was.
C11_AsStated ==
    \A call \in Calls :
        HasData(call) =>
            /\ SameButTaskLine(call)
            /\ SameButCheckbox(call.lines[call.task.line + 1], call.data[call.task.line + 1])

\* The line the call read at task.line is the line its task was parsed from:
\* a checkbox item of the task's state and text
OwnLine(call) ==
    /\ HasRead(call)
    /\ call.task.line < Len(call.lines)
    /\ LET s == call.lines[call.task.line + 1]
       IN  /\ CheckboxAt(s) # 0
           /\ (CheckboxOf(s) # " ") = call.task.completed
           /\ TaskText(s) = call.task.text

\* C12: when the line at task.line is still the task's own line, the lines
\* toggleTask writes are the lines it read with the checkbox character of
\* that line set to x for an open task and to a space for a completed one:
\* as many lines, every other line and every other character the same; and
\* the file holds them once written.
C12_ToggleOwnLine ==
    \A call \in Calls :
        OwnLine(call) =>
            LET s == call.lines[call.task.line + 1]
            IN  /\ call.pc = "read" \/ HasData(call) \/ call.threw
                /\ HasData(call) =>
                       /\ SameButTaskLine(call)
                       /\ call.data[call.task.line + 1] =
                              [s EXCEPT ![CheckboxAt(s)] =
                                  IF call.task.completed THEN " " ELSE "x"]
                /\ call.wrote /\ call.wroteAt = writes => vault[call.file] = call.data

\* Reached: a completed and an open task toggled on their own lines
C12_Witness ==
    /\ \E call \in Calls : OwnLine(call) /\ call.wrote /\ call.task.completed
    /\ \E call \in Calls : OwnLine(call) /\ call.wrote /\ ~call.task.completed

\* toggles[a], then a parse of what it wrote, then toggles[b] on the task
\* that parse gives for the same line, with no other write of the file from
\* the read of the first to the write of the second
RoundTrip(a, b) ==
    /\ a < b
    /\ OwnLine(toggles[a]) /\ ~toggles[a].task.completed
    /\ toggles[a].wrote /\ toggles[a].wroteAt = toggles[a].readAt + 1
    /\ toggles[b].task.line = toggles[a].task.line
    /\ toggles[b].task.completed
    /\ HasData(toggles[b])
    /\ toggles[b].readAt = toggles[a].wroteAt

\* C13: toggling an open task of the document, parsing again and toggling
\* the task again, now completed, hands vault.modify the very lines the first
\* toggle read, and the file holds them once they are written, as long as
\* nothing else writes the file in between.
C13_RoundTrip ==
    \A a, b \in 1..Len(toggles) :
        RoundTrip(a, b) =>
            /\ toggles[b].data = toggles[a].lines
            /\ toggles[b].wrote /\ toggles[b].wroteAt = writes =>
                   vault[toggles[b].file] = toggles[a].lines

\* Reached: both toggles of a round trip have written
C13_Witness ==
    \E a, b \in 1..Len(toggles) :
        RoundTrip(a, b) /\ toggles[b].wrote /\ toggles[b].wroteAt = toggles[b].readAt + 1

\* The call found no line at task.line in what it read
MissingLine(call) == HasRead(call) /\ call.task.line >= Len(call.lines)

\* C14: a toggleTask that finds no current file, or no line at task.line in
\* what it read, is over without an error and without having handed
\* anything to vault.modify.
C14_NoWrite ==
    \A call \in Calls :
        call.noFile \/ MissingLine(call) =>
            /\ call.pc = "done"
            /\ ~call.threw
            /\ ~call.wrote /\ ~HasData(call) /\ call.wroteAt = 0

\* Reached: a task of the last line is toggled after that line was cut
C14_Witness ==
    \E call \in Calls : MissingLine(call) /\ call.pc = "done" /\ edits # <<>> /\ writes = 1

\* Reached as well: a row is clicked while there is no current file
C14_NoFileReached == \E call \in Calls : call.noFile

\* The line is the target of no other toggle than toggles[t] and of no edit
OnlyToggled(t) ==
    /\ \A u \in 1..Len(toggles) : u # t => toggles[u].task.line # toggles[t].task.line
    /\ \A e \in 1..Len(edits) : edits[e].line # toggles[t].task.line

\* C15: once every toggleTask is over, the file holds what each of them
\* wrote on the line of its task and what each edit gave its line, for
\* toggles and edits of different lines.
C15_AsStated ==
    (\A call \in Calls : call.pc = "done") =>
        /\ \A t \in 1..Len(toggles) :
               toggles[t].wrote /\ OnlyToggled(t) =>
                   vault[toggles[t].file][toggles[t].task.line + 1]
                       = toggles[t].data[toggles[t].task.line + 1]
        /\ \A e \in 1..Len(edits) :
               /\ \A call \in Calls : call.task.line # edits[e].line
               /\ \A f \in 1..Len(edits) : f # e => edits[f].line # edits[e].line
               =>
                   vault[edits[e].path][edits[e].line + 1] = edits[e].text

\* ---------------------------------------------------------------------------
\* C16: the handlers of the host's events

\* The event of a step is about the current file
AboutCurrent(path) == currentFile # NoFile /\ path = currentFile

\* What a step of the view does for the event the host delivered in it
C16_Step ==
    /\ lastEvent'.type = "file-open" =>
           currentFile' = lastEvent'.path /\ refreshStarted'
    /\ lastEvent'.type = "rename" /\ AboutCurrent(lastEvent'.oldPath) =>
           currentFile' = lastEvent'.path /\ refreshStarted'
    /\ lastEvent'.type = "delete" /\ AboutCurrent(lastEvent'.path) =>
           /\ currentFile' = NoFile /\ refreshStarted'
           /\ panel' = <<EmptyState("No active note")>>
    /\ lastEvent'.type = "changed" /\ AboutCurrent(lastEvent'.path) =>
           currentFile' = currentFile /\ (refreshStarted' \/ debouncer'.armed)
    /\ \/ lastEvent'.type \in {"changed", "delete"} /\ ~AboutCurrent(lastEvent'.path)
       \/ lastEvent'.type = "rename" /\ ~AboutCurrent(lastEvent'.oldPath)
       => /\ ~refreshStarted'
          /\ UNCHANGED <<currentFile, panel, refreshes, debouncer>>

\* C16: after a file-open the current file is the opened one; after a rename
\* of the current file it is the renamed file; after a delete of the current
\* file there is none and the panel shows "No active note"; each of these
\* events starts a refresh, and a change notification for the current file
\* schedules one, which is then started; a change, rename or delete of
\* another file leaves the current file alone and starts no refresh.
C16_EventsTracked ==
    /\ [][C16_Step]_vars
    /\ debouncer.armed ~> (~debouncer.armed /\ refreshStarted)

\* Reached: the current file was deleted
C16_Witness ==
    /\ lastEvent.type = "delete" /\ currentFile = NoFile /\ refreshStarted
    /\ panel = <<EmptyState("No active note")>>

\* ---------------------------------------------------------------------------
\* C17

\* The result of parseTasks for the note as the vault and the cache hold it
Parsed(path) == parseTasks(metadata[path], vault[path])

\* How many items of the list are rows of the task of that line
RowsOf(items, line) ==
    Cardinality({i \in 1..Len(items) : items[i].kind = "row" /\ items[i].task.line = line})

\* C17: once the refresh of a markdown note is over with showCompleted off,
\* every open task of the parse result, whatever its depth and its ancestors,
\* has exactly one row, and every group heading is followed by a row.
C17_AsStated ==
    refreshes = <<>> /\ ~settings.showCompleted /\ Len(panel) = 1 =>
        LET tasks == Emitted(Parsed("a.md").groups)
            items == IF panel[1].kind = "list" THEN panel[1].items ELSE <<>>
        IN  /\ \A k \in 1..Len(tasks) :
                   ~tasks[k].completed => RowsOf(items, tasks[k].line) = 1
            /\ \A i \in 1..Len(items) :
                   items[i].kind = "heading" =>
                       i < Len(items) /\ items[i + 1].kind = "row"

\* ---------------------------------------------------------------------------
\* C18

\* C18: once no refresh is under way, the panel holds one rendering, of the
\* current file: one task list or one empty-state message, "No active note"
\* without a current file, and no list of another file.
C18_AsStated ==
    refreshes = <<>> =>
        /\ Len(panel) = 1
        /\ panel[1].kind = "list" => panel[1].file = currentFile
        /\ currentFile = NoFile => panel[1] = EmptyState("No active note")

\* ---------------------------------------------------------------------------
\* C19

\* C19: a burst of change notifications for the current file, each within
\* the quiet window of the one before, runs the debounced refresh at most
\* once at its first notification and exactly once more, and that not before
\* the quiet window after its last notification: none while the window is
\* open, one once it is over.
C19_Burst ==
    burst.count > 0 =>
        /\ burst.leading <= 1
        /\ burst.sinceLast < DebounceMs =>
               debouncer.armed /\ burst.runs = burst.leading
        /\ burst.sinceLast = DebounceMs =>
               \/ debouncer.armed /\ burst.runs = burst.leading
               \/ ~debouncer.armed /\ burst.runs = burst.leading + 1
        /\ burst.sinceLast > DebounceMs =>
               ~debouncer.armed /\ burst.runs = burst.leading + 1

\* Reached: the one refresh of a burst of two notifications has run
C19_Witness ==
    /\ burst.count = 2 /\ burst.runs = 1 /\ burst.sinceLast >= DebounceMs
    /\ ~debouncer.armed /\ refreshStarted

\* ---------------------------------------------------------------------------
\* C21

\* C21: once the refresh of a markdown note is over with showCompleted off,
\* the panel holds no row of a completed task, in grouped and in flat mode
\* and at every depth, the completed children of open roots included.
C21_AsStated ==
    refreshes = <<>> /\ ~settings.showCompleted /\ Len(panel) = 1 =>
        LET items == IF panel[1].kind = "list" THEN panel[1].items ELSE <<>>
        IN  \A i \in 1..Len(items) :
                items[i].kind = "row" => ~items[i].task.completed

=============================================================================
